---- MODULE Spec2Model ----
(***************************************************************************)
(* The blueprint state engine of the drag-and-drop page builder: the       *)
(* ordered store of component instances (canvasComponents), the drag-end   *)
(* reconciler, the properties editor and the transient image resources.    *)
(*                                                                         *)
(* The repository holds three builds of the editor, all modelled here and  *)
(* told apart by the variable `variant`:                                   *)
(*   DragJsx      src/src/components/Drag.jsx, DragAdvanced (lines 1-992)  *)
(*   DragDropJsx  src/src/components/Drag.jsx, DragDrop (lines 994-1787)   *)
(*   AdvancedJsx  src/src/components/DragAdvanced.jsx, DragAdvanced        *)
(*                                                                         *)
(* JavaScript values: strings are strings, booleans are booleans, a number *)
(* n is the tuple <<n>> and NaN is the empty tuple, so that a numeric      *)
(* field can hold NaN. The text of an <input type="number"> is a sequence  *)
(* of one-character strings.                                               *)
(***************************************************************************)
EXTENDS Integers, Sequences, FiniteSets, TLC

\* ------------------------------------------------------------ bounds ----
\* instances on the canvas, plus editor updates made, plus ticks of the clock
MaxWork == 3

\* ------------------------------------------------- JavaScript values ----
NONE == "none"
Num(n) == <<n>>
NaN == <<>>
IsNaN(x) == x = <<>>
Val(x) == x[1]

Digits == {"0", "1", "2", "3", "4", "5", "6", "7", "8", "9"}
DigitVal(ch) ==
  CASE ch = "0" -> 0 [] ch = "1" -> 1 [] ch = "2" -> 2 [] ch = "3" -> 3
    [] ch = "4" -> 4 [] ch = "5" -> 5 [] ch = "6" -> 6 [] ch = "7" -> 7
    [] ch = "8" -> 8 [] ch = "9" -> 9

RECURSIVE ParseDigits(_, _, _)
ParseDigits(s, i, acc) ==
  IF i > Len(s) \/ s[i] \notin Digits
    THEN acc
    ELSE ParseDigits(s, i + 1, acc * 10 + DigitVal(s[i]))

RECURSIVE SkipSpace(_)
SkipSpace(s) == IF Len(s) > 0 /\ s[1] = " " THEN SkipSpace(Tail(s)) ELSE s

\* parseInt(value, 10): leading blanks, an optional sign, then the longest
\* run of digits; NaN when there is no digit.
parseInt(s) ==
  LET t == SkipSpace(s)
      neg == Len(t) > 0 /\ t[1] = "-"
      u == IF Len(t) > 0 /\ t[1] \in {"+", "-"} THEN Tail(t) ELSE t
  IN  IF Len(u) = 0 \/ u[1] \notin Digits
        THEN NaN
        ELSE Num((IF neg THEN -1 ELSE 1) * ParseDigits(u, 1, 0))

\* a - b and a > b on JavaScript numbers
Minus(a, b) == IF IsNaN(a) \/ IsNaN(b) THEN NaN ELSE Num(Val(a) - Val(b))
Gt(a, b) == ~IsNaN(a) /\ ~IsNaN(b) /\ Val(a) > Val(b)

\* { ...rec, [k]: v }
Spread(rec, k, v) == [x \in DOMAIN rec \cup {k} |-> IF x = k THEN v ELSE rec[x]]
\* const { [k]: _, ...rest } = rec
Rest(rec, k) == [x \in DOMAIN rec \ {k} |-> rec[x]]
\* Array(n).fill(v)
Fill(n, v) == [i \in 1..n |-> v]
\* arr.length = n for an n that is a valid length not above the current one;
\* the callers raise RangeError themselves for the other values
Truncate(arr, n) == SubSeq(arr, 1, n)
ValidLength(n) == ~IsNaN(n) /\ Val(n) >= 0

\* ------------------------------------------------------ build variants ----
DragJsx == "Drag.jsx/DragAdvanced"
DragDropJsx == "Drag.jsx/DragDrop"
AdvancedJsx == "DragAdvanced.jsx/DragAdvanced"
Variants == {DragJsx, DragDropJsx, AdvancedJsx}

\* ------------------------------------------------------------ registry ----
\* generateDefaultTableData(rows, cols, hasHeader)
generateDefaultTableData(rows, cols, hasHeader) ==
  LET actualRows == IF hasHeader THEN rows - 1 ELSE rows
  IN  [headers |-> [i \in 1..cols |-> "Header " \o ToString(i)],
       cells |-> [r \in 1..actualRows |->
                    [c \in 1..cols |-> "Cell " \o ToString(r) \o "-" \o ToString(c)]]]

Margins(t, b) ==
  [marginTop |-> Num(t), marginBottom |-> Num(b), marginLeft |-> Num(0),
   marginRight |-> Num(0)]
TextStyles(t, b, size, color) ==
  [marginTop |-> Num(t), marginBottom |-> Num(b), marginLeft |-> Num(0),
   marginRight |-> Num(0), fontSize |-> Num(size), color |-> color]
BoxStyles ==
  [marginTop |-> Num(0), marginBottom |-> Num(0), marginLeft |-> Num(0),
   marginRight |-> Num(0), paddingTop |-> Num(0), paddingBottom |-> Num(0),
   paddingLeft |-> Num(0), paddingRight |-> Num(0)]

\* DEFAULT_PROPS of Drag.jsx (DragAdvanced), for the palette types
DragJsxDefaults ==
  [Text |-> [text |-> "This is an editable text block. Click to select and edit in the properties panel.",
             styles |-> TextStyles(8, 8, 18, "#1e293b")],
   Description |-> [text |-> "This is a smaller description text. Use it for details, captions, or supplementary information.",
                    styles |-> TextStyles(4, 4, 14, "#475569")],
   Image |-> [src |-> "https://images.unsplash.com/photo-1599420186946-7b6fb4e297f0?ixlib=rb-1.2.1&auto=format&fit=crop&w=800&q=80",
              alt |-> "A placeholder image",
              styles |-> Margins(10, 4)],
   Table |-> [rows |-> Num(4), cols |-> Num(4), hasHeader |-> TRUE,
              data |-> generateDefaultTableData(4, 4, TRUE),
              styles |-> Margins(10, 4)]]

\* DEFAULT_PROPS of Drag.jsx (DragDrop)
DragDropJsxDefaults ==
  [Button |-> [text |-> "Click Me", variant |-> "default", styles |-> BoxStyles],
   Input |-> [label |-> "Your Name", placeholder |-> "Enter your name", styles |-> BoxStyles],
   Card |-> [title |-> "Card Title", description |-> "Card Description", styles |-> BoxStyles],
   Textarea |-> [label |-> "Message", placeholder |-> "Your message here", styles |-> BoxStyles],
   Select |-> [label |-> "Choose an option", options |-> "Option 1,Option 2,Option 3",
               styles |-> BoxStyles],
   Checkbox |-> [label |-> "Accept terms", checked |-> FALSE, styles |-> BoxStyles]]

\* DEFAULT_PROPS of DragAdvanced.jsx, for the palette types
AdvancedJsxDefaults ==
  [Button |-> [text |-> "Click Me", variant |-> "default",
               styles |-> TextStyles(0, 8, 14, "#FFFFFF")],
   Input |-> [label |-> "Field Label", placeholder |-> "Enter value...",
              styles |-> TextStyles(10, 4, 14, "#334155")],
   Textarea |-> [label |-> "Message", placeholder |-> "Your message here",
                 styles |-> TextStyles(10, 4, 14, "#334155")],
   Separator |-> [styles |-> TextStyles(10, 4, 14, "#334155")],
   Image |-> [src |-> "https://www.dekoder.com/assets/mediaasset/image/DBD8X9/DBD8X9_600fd5934baa4c06b4ea595b9634a7a7.jpeg",
              alt |-> "A beautiful sunset",
              styles |-> TextStyles(10, 4, 14, "#334155")]]

DEFAULT_PROPS(v) ==
  CASE v = DragJsx -> DragJsxDefaults
    [] v = DragDropJsx -> DragDropJsxDefaults
    [] v = AdvancedJsx -> AdvancedJsxDefaults

\* the palette: Object.keys(COMPONENT_MAP), or the list DragDrop spells out
availableComponents(v) ==
  CASE v = DragJsx -> {"Text", "Description", "Image", "Table"}
    [] v = DragDropJsx -> {"Button", "Input", "Textarea", "Select", "Checkbox", "Card"}
    [] v = AdvancedJsx -> {"Button", "Input", "Textarea", "Separator", "Image"}

\* JSON.parse(JSON.stringify(x)) of a number: NaN is written as null
null == <<NONE, NONE>>
JSONNumber(x) == IF IsNaN(x) THEN null ELSE x
\* JSON.parse(JSON.stringify(styles))
JSONStyles(styles) ==
  [k \in DOMAIN styles |-> IF k = "color" THEN styles[k] ELSE JSONNumber(styles[k])]
\* JSON.parse(JSON.stringify(props)): strings, booleans and the table data
\* (arrays of strings) are rebuilt equal, numbers go through JSONNumber
JSONClone(props) ==
  [k \in DOMAIN props |->
     CASE k = "styles" -> JSONStyles(props[k])
       [] k \in {"rows", "cols"} -> JSONNumber(props[k])
       [] OTHER -> props[k]]

\* an import list with one entry per instance
importsPerInstance(v, components) == [i \in 1..Len(components) |-> components[i].type]

\* ExportModal.generateComponentCode, the names of its import line: a Set in
\* insertion order, the types of the instances added one by one; the DragDrop
\* build starts it from React, useState and useEffect
RECURSIVE SetAddAll(_, _, _)
SetAddAll(set, components, i) ==
  IF i > Len(components)
    THEN set
    ELSE SetAddAll(IF \E k \in 1..Len(set) : set[k] = components[i].type
                     THEN set ELSE Append(set, components[i].type),
                   components, i + 1)
imports(v, components) ==
  SetAddAll(IF v = DragDropJsx THEN <<"React", "useState", "useEffect">> ELSE <<>>,
            components, 1)

\* a document that lists the instances last first
pageJsonReversed(v, components) ==
  [name |-> "Exported Page",
   components |-> [i \in 1..Len(components) |->
                     [id |-> components[Len(components) + 1 - i].id,
                      type |-> components[Len(components) + 1 - i].type,
                      props |-> JSONClone(components[Len(components) + 1 - i].props)]]]

\* ExportModal.pageJson: JSON.stringify({ name: "Exported Page", components }),
\* the document given as the value JSON.parse reads from its text
pageJson(v, components) ==
  [name |-> IF v = DragDropJsx THEN "My Awesome Page" ELSE "Exported Page",
   components |-> [i \in 1..Len(components) |->
                     [id |-> components[i].id, type |-> components[i].type,
                      props |-> JSONClone(components[i].props)]]]

\* --------------------------------------------------------------- state ----
VARIABLES
  variant,              \* which build of the editor is running
  canvasComponents,     \* the store: sequence of [id, type, props, propsRef]
  selectedComponentId,  \* NONE or an id
  now,                  \* the value Date.now() returns
  mounted,              \* FALSE once a render has thrown (React unmounts the tree)
  nEdits,               \* number of property-editor and inline updates so far
  created,              \* number of URL.createObjectURL calls so far
  revoked,              \* the URL.revokeObjectURL calls so far, in order
  isExportModalOpen,    \* the export dialog is shown
  activeDrag,           \* NONE, or what the drag in progress picked up
  lastEvent             \* the handler call that produced this state

vars ==
  <<variant, canvasComponents, selectedComponentId, now, mounted, nEdits,
    created, revoked, isExportModalOpen, activeDrag, lastEvent>>

\* propsRef tells whether props is the DEFAULT_PROPS template object itself
\* ("DEFAULT_PROPS") or an object of the instance's own ("own").
Ids(c) == {c[i].id : i \in 1..Len(c)}

\* array.findIndex(c => c.id === id): 0-based, -1 when absent
findIndex(c, id) ==
  IF \E i \in 1..Len(c) : c[i].id = id
    THEN (CHOOSE i \in 1..Len(c) : c[i].id = id /\ \A j \in 1..(i - 1) : c[j].id # id) - 1
    ELSE -1

\* array.splice(start, 0, item) on a copy: start is clamped as splice clamps it
SpliceIn(c, start, item) ==
  LET n == Len(c)
      s == IF start < 0 THEN (IF n + start < 0 THEN 0 ELSE n + start)
           ELSE (IF start > n THEN n ELSE start)
  IN  SubSeq(c, 1, s) \o <<item>> \o SubSeq(c, s + 1, n)

\* array.splice(start, 1) on a copy: <<what is left, the removed items>>
SpliceOut(c, start) ==
  LET n == Len(c)
      s == IF start < 0 THEN (IF n + start < 0 THEN 0 ELSE n + start)
           ELSE (IF start > n THEN n ELSE start)
  IN  IF s < n
        THEN <<SubSeq(c, 1, s) \o SubSeq(c, s + 2, n), <<c[s + 1]>> >>
        ELSE <<c, <<>> >>

\* arrayMove of @dnd-kit/sortable:
\*   newArray.splice(to < 0 ? newArray.length + to : to, 0,
\*                   newArray.splice(from, 1)[0])
\* the target index is computed before the removal, the insertion is made
\* after it.
arrayMove(array, from, to) ==
  LET at == IF to < 0 THEN Len(array) + to ELSE to
      out == SpliceOut(array, from)
      item == IF Len(out[2]) > 0 THEN out[2][1] ELSE NONE
  IN  SpliceIn(out[1], at, item)

\* the instance a palette drop creates
NewId(type, t) == type \o "-" \o ToString(t)
newComponent(v, type, t) ==
  IF v = DragJsx
    THEN [id |-> NewId(type, t), type |-> type,
          props |-> JSONClone(DEFAULT_PROPS(v)[type]), propsRef |-> "own"]
    ELSE [id |-> NewId(type, t), type |-> type,
          props |-> DEFAULT_PROPS(v)[type], propsRef |-> "DEFAULT_PROPS"]

\* a drag end that makes an instance of whatever was dragged, registered or not
DragEndDragJsxAnyType(c, active, over, t) ==
  IF over = NONE \/ active \in Ids(c) THEN c
  ELSE Append(c, [id |-> NewId(active, t), type |-> active,
                  props |-> [styles |-> Margins(0, 0)], propsRef |-> "own"])

\* a drag end that adds the new instance twice
DragEndDragJsxTwice(c, active, over, t) ==
  IF over = NONE THEN c
  ELSE IF active \in availableComponents(DragJsx)
    THEN Append(Append(c, newComponent(DragJsx, active, t)), newComponent(DragJsx, active, t))
  ELSE c

\* a reorder that passes the two indices to arrayMove in the wrong order
DragEndDragJsxSwapped(c, active, over, t) ==
  IF over = NONE THEN c
  ELSE IF active \in availableComponents(DragJsx)
    THEN LET overIndex == findIndex(c, over)
         IN  IF overIndex # -1
               THEN SpliceIn(c, overIndex, newComponent(DragJsx, active, t))
               ELSE Append(c, newComponent(DragJsx, active, t))
  ELSE IF active \in Ids(c) /\ over \in Ids(c) /\ active # over
    THEN arrayMove(c, findIndex(c, over), findIndex(c, active))
  ELSE c

\* handleDragEnd of Drag.jsx (DragAdvanced): the next store
DragEndDragJsx(c, active, over, t) ==
  IF over = NONE THEN c
  ELSE IF active \in availableComponents(DragJsx)
    THEN LET overIndex == findIndex(c, over)
         IN  IF overIndex # -1
               THEN SpliceIn(c, overIndex, newComponent(DragJsx, active, t))
               ELSE Append(c, newComponent(DragJsx, active, t))
  ELSE IF active \in Ids(c) /\ over \in Ids(c) /\ active # over
    THEN arrayMove(c, findIndex(c, active), findIndex(c, over))
  ELSE c

\* a reorder that puts the dragged instance at its new place without taking
\* it out of the old one
DragEndDragDropJsxCopy(c, active, over, t) ==
  IF over = NONE THEN c
  ELSE IF active \in availableComponents(DragDropJsx)
    THEN Append(c, newComponent(DragDropJsx, active, t))
  ELSE IF active # over /\ active \in Ids(c)
    THEN SpliceIn(c, findIndex(c, over), c[findIndex(c, active) + 1])
  ELSE c

\* handleDragEnd of Drag.jsx (DragDrop)
DragEndDragDropJsx(c, active, over, t) ==
  IF over = NONE THEN c
  ELSE IF active \in availableComponents(DragDropJsx)
    THEN Append(c, newComponent(DragDropJsx, active, t))
  ELSE IF active # over /\ active \in Ids(c)
    THEN arrayMove(c, findIndex(c, active), findIndex(c, over))
  ELSE c

\* a handler without the `if (!over) return` guard
DragEndAdvancedJsxNoGuard(c, active, over, t) ==
  IF active \in availableComponents(AdvancedJsx)
    THEN Append(c, newComponent(AdvancedJsx, active, t))
  ELSE IF active # over
    THEN arrayMove(c, findIndex(c, active), findIndex(c, over))
  ELSE c

\* handleDragEnd of DragAdvanced.jsx
DragEndAdvancedJsx(c, active, over, t) ==
  IF over = NONE THEN c
  ELSE IF active \in availableComponents(AdvancedJsx)
    THEN Append(c, newComponent(AdvancedJsx, active, t))
  ELSE IF active # over
    THEN arrayMove(c, findIndex(c, active), findIndex(c, over))
  ELSE c

DragEnd(v, c, active, over, t) ==
  CASE v = DragJsx -> DragEndDragJsx(c, active, over, t)
    [] v = DragDropJsx -> DragEndDragDropJsx(c, active, over, t)
    [] v = AdvancedJsx -> DragEndAdvancedJsx(c, active, over, t)

\* SortableCanvasItem reads styles.marginTop of every instance: a render of a
\* store holding an instance without styles throws
Renders(c) == \A i \in 1..Len(c) : "styles" \in DOMAIN c[i].props

\* ---------------------------------------------------- properties editor ----
\* an update that merges newProps over the props the instance has
handleUpdateComponentMerge(c, id, newProps) ==
  [i \in 1..Len(c) |->
     IF c[i].id = id
       THEN [c[i] EXCEPT
               !.props = [k \in DOMAIN newProps \cup DOMAIN c[i].props |->
                            IF k \in DOMAIN newProps THEN newProps[k] ELSE c[i].props[k]],
               !.propsRef = "own"]
       ELSE c[i]]

\* handleUpdateComponent(id, newProps): every instance with that id gets
\* newProps, as an object of its own
handleUpdateComponent(c, id, newProps) ==
  [i \in 1..Len(c) |->
     IF c[i].id = id
       THEN [c[i] EXCEPT !.props = newProps, !.propsRef = "own"]
       ELSE c[i]]

\* canvasComponents.find(c => c.id === selectedComponentId): an index, 0 if none
selectedComponent(c, sel) == findIndex(c, sel) + 1

\* the fields renderFields gives an input bound to handlePropChange
PropFields(v, type) ==
  CASE v = DragJsx ->
         (CASE type \in {"Text", "Description", "Button"} -> {"text"}
            [] type = "Graph" -> {"chartType"}
            [] type = "Image" -> {"src", "alt"}
            [] type \in {"Input", "Textarea"} -> {"label", "placeholder"}
            [] OTHER -> {})
    [] v = DragDropJsx ->
         (CASE type \in {"Input", "Textarea"} -> {"label", "placeholder"}
            [] type = "Select" -> {"label", "options"}
            [] type = "Button" -> {"text", "variant"}
            [] type = "Checkbox" -> {"label"}
            [] type = "Card" -> {"title", "description"}
            [] OTHER -> {})
    [] v = AdvancedJsx ->
         (CASE type = "Input" -> {"label", "placeholder"}
            [] type \in {"Textarea", "Checkbox"} -> {"label"}
            [] type = "Select" -> {"label", "options"}
            [] type = "Button" -> {"text", "variant"}
            [] OTHER -> {})

\* handlePropChange: { ...props, [name]: value }
handlePropChange(props, name, value) == Spread(props, name, value)

\* the style inputs the panel renders for these props
StyleFields(v, props) ==
  IF v = DragDropJsx
    THEN {"marginTop", "marginBottom", "marginLeft", "marginRight",
          "paddingTop", "paddingBottom", "paddingLeft", "paddingRight"}
    ELSE {"marginTop", "marginBottom", "marginLeft", "marginRight"}
           \cup ({"color", "fontSize"} \cap DOMAIN props.styles)

\* the value handleStyleChange stores for the text of a style input
StyleValue(v, name, text) ==
  IF v = DragDropJsx
    THEN (IF IsNaN(parseInt(text)) \/ parseInt(text) = Num(0)
            THEN Num(0) ELSE parseInt(text))
    ELSE parseInt(text)

\* handleStyleChange: { ...props, styles: { ...props.styles, [name]: value } }
handleStyleChange(props, name, value) ==
  Spread(props, "styles", Spread(props.styles, name, value))

\* a resize that builds the data of the new shape afresh instead of
\* migrating the data it has
handleTableStructureChangeRebuild(props, name, newPropValue) ==
  LET newRows == IF name = "rows" THEN newPropValue ELSE props.rows
      newCols == IF name = "cols" THEN newPropValue ELSE props.cols
      newCellRows == IF props.hasHeader THEN Minus(newRows, Num(1)) ELSE newRows
  IN  IF ~ValidLength(newCols) \/ ~ValidLength(newCellRows)
        THEN [threw |-> TRUE, props |-> props]
        ELSE [threw |-> FALSE,
              props |-> Spread(Spread(props, name, newPropValue), "data",
                          generateDefaultTableData(
                            Val(newCellRows) + (IF props.hasHeader THEN 1 ELSE 0),
                            Val(newCols), props.hasHeader))]

\* a resize that takes every row of the table for a data row
handleTableStructureChangeNoHeaderRow(props, name, newPropValue) ==
  LET currentRows == props.rows
      currentCol == props.cols
      currentData == props.data
      newProps == Spread(props, name, newPropValue)
      newRows == IF name = "rows" THEN newPropValue ELSE currentRows
      newCols == IF name = "cols" THEN newPropValue ELSE currentCol
      headerDiff == Minus(newCols, Num(Len(currentData.headers)))
      headersThrow == ~Gt(headerDiff, Num(0)) /\ ~ValidLength(newCols)
      headers == IF Gt(headerDiff, Num(0))
                   THEN currentData.headers \o Fill(Val(headerDiff), "New Header")
                   ELSE Truncate(currentData.headers, Val(newCols))
      newCellRows == newRows
      rowDiff == Minus(newCellRows, Num(Len(currentData.cells)))
      rowsThrow == ~Gt(rowDiff, Num(0)) /\ ~ValidLength(newCellRows)
      rows == IF Gt(rowDiff, Num(0))
                THEN currentData.cells \o Fill(Val(rowDiff), Fill(Val(newCols), "New Cell"))
                ELSE Truncate(currentData.cells, Val(newCellRows))
      newCells == [r \in 1..Len(rows) |->
                     IF Val(newCols) - Len(rows[r]) > 0
                       THEN rows[r] \o Fill(Val(newCols) - Len(rows[r]), "New Cell")
                       ELSE Truncate(rows[r], Val(newCols))]
  IN  IF headersThrow \/ rowsThrow
        THEN [threw |-> TRUE, props |-> props]
        ELSE [threw |-> FALSE,
              props |-> Spread(newProps, "data", [headers |-> headers, cells |-> newCells])]

\* handleTableStructureChange: [threw, props]. threw is TRUE when an
\* assignment to .length raises RangeError, and onUpdate is then not reached
handleTableStructureChange(props, name, newPropValue) ==
  LET currentRows == props.rows
      currentCol == props.cols
      currentData == props.data
      newProps == Spread(props, name, newPropValue)
      newRows == IF name = "rows" THEN newPropValue ELSE currentRows
      newCols == IF name = "cols" THEN newPropValue ELSE currentCol
      headerDiff == Minus(newCols, Num(Len(currentData.headers)))
      headersThrow == ~Gt(headerDiff, Num(0)) /\ ~ValidLength(newCols)
      headers == IF Gt(headerDiff, Num(0))
                   THEN currentData.headers \o Fill(Val(headerDiff), "New Header")
                   ELSE Truncate(currentData.headers, Val(newCols))
      newCellRows == IF props.hasHeader THEN Minus(newRows, Num(1)) ELSE newRows
      rowDiff == Minus(newCellRows, Num(Len(currentData.cells)))
      rowsThrow == ~Gt(rowDiff, Num(0)) /\ ~ValidLength(newCellRows)
      rows == IF Gt(rowDiff, Num(0))
                THEN currentData.cells \o Fill(Val(rowDiff), Fill(Val(newCols), "New Cell"))
                ELSE Truncate(currentData.cells, Val(newCellRows))
      newCells == [r \in 1..Len(rows) |->
                     IF Val(newCols) - Len(rows[r]) > 0
                       THEN rows[r] \o Fill(Val(newCols) - Len(rows[r]), "New Cell")
                       ELSE Truncate(rows[r], Val(newCols))]
  IN  IF headersThrow \/ rowsThrow
        THEN [threw |-> TRUE, props |-> props]
        ELSE [threw |-> FALSE,
              props |-> Spread(newProps, "data", [headers |-> headers, cells |-> newCells])]

\* a cell save that writes the column of the cell in every data row
handleCellSaveColumn(data, rowIndex, colIndex, newValue) ==
  [data EXCEPT !.cells = [r \in 1..Len(data.cells) |->
                            [data.cells[r] EXCEPT ![colIndex + 1] = newValue]]]

\* Table.handleHeaderSave and handleCellSave: the new data
handleHeaderSave(data, colIndex, newValue) ==
  [data EXCEPT !.headers[colIndex + 1] = newValue]
handleCellSave(data, rowIndex, colIndex, newValue) ==
  [data EXCEPT !.cells[rowIndex + 1][colIndex + 1] = newValue]
\* onDataChange of the canvas item: { ...component.props, data: newTableData }
onDataChange(props, newTableData) == Spread(props, "data", newTableData)

\* URL.createObjectURL: the n-th URL handed out
BlobURL(n) == "blob:" \o ToString(n)
\* src && src.startsWith("blob:")
IsBlobURL(src) == \E n \in 1..MaxWork : src = BlobURL(n)
\* file && file.type.startsWith("image/"), a file being its MIME type
IsImageFile(file) == file = "image/png"

\* a replace that releases nothing
revokeObjectURLNever(released, props) == released

\* a replace that releases whatever src holds
revokeObjectURLAlways(released, props) == Append(released, props.src)

\* if (props.src && props.src.startsWith("blob:")) URL.revokeObjectURL(props.src):
\* the URLs released so far, after it
revokeObjectURL(released, props) ==
  IF "src" \in DOMAIN props /\ IsBlobURL(props.src)
    THEN Append(released, props.src)
    ELSE released

\* handleImageFileSelect of the panel: { ...props, src: newSrc }
handleImageFileSelect(props, newSrc) == Spread(props, "src", newSrc)
\* handleDrop of SortableCanvasItem: its props are component.props without
\* styles (const { styles, ...props } = component.props)
handleDrop(componentProps, newSrc) == Spread(Rest(componentProps, "styles"), "src", newSrc)

\* the droppables other than canvas items a drag can end over: palette
\* entries (one stands for all, the handlers only test canvas membership)
PaletteTargets(v) == {CHOOSE p \in availableComponents(v) : TRUE}

\* what the run has spent of its bound
Work == Len(canvasComponents) + nEdits + now

Init ==
  /\ variant \in Variants
  /\ canvasComponents = <<>>
  /\ selectedComponentId = NONE
  /\ now = 0
  /\ mounted = TRUE
  /\ nEdits = 0
  /\ created = 0
  /\ revoked = <<>>
  /\ isExportModalOpen = FALSE
  /\ activeDrag = NONE
  /\ lastEvent = [op |-> "init"]

\* the page takes an event: it is rendered, no drag is in progress (a drag
\* holds the pointer from press to release) and the export dialog, which
\* covers the page, is closed
Idle == mounted /\ activeDrag = NONE /\ ~isExportModalOpen

\* the clock advances between two events
Tick ==
  /\ Idle
  /\ Work < MaxWork
  /\ now' = now + 1
  /\ lastEvent' = [op |-> "tick"]
  /\ UNCHANGED <<variant, isExportModalOpen, activeDrag, canvasComponents, selectedComponentId, mounted,
                 nEdits, created, revoked>>

\* onDragEnd={handleDragEnd}
HandleDragEnd(active, over) ==
  /\ mounted
  /\ activeDrag = active
  /\ active \in availableComponents(variant) => Work < MaxWork
  /\ canvasComponents' = DragEnd(variant, canvasComponents, active, over, now)
  /\ mounted' = Renders(canvasComponents')
  /\ activeDrag' = NONE
  /\ lastEvent' = [op |-> "dragEnd", active |-> active, over |-> over]
  /\ UNCHANGED <<variant, isExportModalOpen, selectedComponentId, now, nEdits, created, revoked>>

\* the palette entries the user drags: of each build, types that differ in
\* their editable fields
PaletteInputs(v) ==
  CASE v = DragJsx -> {"Text", "Image", "Table"}
    [] v = DragDropJsx -> {"Button", "Checkbox"}
    [] v = AdvancedJsx -> {"Button", "Image"}

\* a drag begins: the pointer is pressed on a palette entry or on a canvas
\* instance and moved. DndContext is given no onDragStart, onDragMove or
\* onDragOver: the begin and the moves of a drag run no code of the editor
DragStart(active) ==
  /\ Idle
  /\ active \in availableComponents(variant) => Work < MaxWork
  /\ activeDrag' = active
  /\ lastEvent' = [op |-> "dragStart", active |-> active]
  /\ UNCHANGED <<variant, canvasComponents, selectedComponentId, now, mounted,
                 nEdits, created, revoked, isExportModalOpen>>

DragStartStep ==
  \E active \in PaletteInputs(variant) \cup Ids(canvasComponents) : DragStart(active)

\* a drag is cancelled (Escape): DndContext is given no onDragCancel
DragCancel ==
  /\ mounted
  /\ activeDrag # NONE
  /\ activeDrag' = NONE
  /\ lastEvent' = [op |-> "dragCancel", active |-> activeDrag]
  /\ UNCHANGED <<variant, canvasComponents, selectedComponentId, now, mounted,
                 nEdits, created, revoked, isExportModalOpen>>

DragEndStep ==
  \E active \in PaletteInputs(variant) \cup Ids(canvasComponents) :
    \E over \in {NONE} \cup PaletteTargets(variant) \cup Ids(canvasComponents) :
      HandleDragEnd(active, over)

\* a click that selects by the type of the instance, not by its id
SelectType(id) ==
  /\ Idle
  /\ selectedComponentId' = canvasComponents[findIndex(canvasComponents, id) + 1].type
  /\ lastEvent' = [op |-> "select", id |-> id]
  /\ UNCHANGED <<variant, isExportModalOpen, activeDrag, canvasComponents, now, mounted,
                 nEdits, created, revoked>>

\* onClick={() => onSelect(id)}
Select(id) ==
  /\ Idle
  /\ selectedComponentId' = id
  /\ lastEvent' = [op |-> "select", id |-> id]
  /\ UNCHANGED <<variant, isExportModalOpen, activeDrag, canvasComponents, now, mounted, nEdits, created, revoked>>

SelectStep == \E id \in Ids(canvasComponents) : Select(id)

\* onDeselect={() => setSelectedComponentId(null)}
Deselect ==
  /\ Idle
  /\ selectedComponentId' = NONE
  /\ lastEvent' = [op |-> "deselect"]
  /\ UNCHANGED <<variant, isExportModalOpen, activeDrag, canvasComponents, now, mounted, nEdits, created, revoked>>

\* a Clear that empties the store and keeps the selection
ClearStoreOnly ==
  /\ Idle
  /\ canvasComponents' = <<>>
  /\ lastEvent' = [op |-> "clear"]
  /\ UNCHANGED <<variant, isExportModalOpen, activeDrag, selectedComponentId, now,
                 mounted, nEdits, created, revoked>>

\* the Clear button
Clear ==
  /\ Idle
  /\ canvasComponents' = <<>>
  /\ selectedComponentId' = NONE
  /\ lastEvent' = [op |-> "clear"]
  /\ UNCHANGED <<variant, isExportModalOpen, activeDrag, now, mounted, nEdits, created, revoked>>

\* the Export button: setExportModalOpen(true)
OpenExport ==
  /\ Idle
  /\ isExportModalOpen' = TRUE
  /\ lastEvent' = [op |-> "export"]
  /\ UNCHANGED <<variant, canvasComponents, selectedComponentId, now, mounted,
                 nEdits, created, revoked, activeDrag>>

\* onClose of the dialog: setExportModalOpen(false)
CloseExport ==
  /\ mounted
  /\ isExportModalOpen
  /\ isExportModalOpen' = FALSE
  /\ lastEvent' = [op |-> "closeExport"]
  /\ UNCHANGED <<variant, canvasComponents, selectedComponentId, now, mounted,
                 nEdits, created, revoked, activeDrag>>

\* ------------------------------------------------------ editor inputs ----
TextInputs == {"New"}
VariantOptions == {"default", "destructive"}
ColorInputs == {"#000000"}
StyleInputs == {<<>>, <<"1", "2">>}
StyleFieldInputs == {"marginTop", "fontSize", "color", "paddingTop"}
DimInputs == {<<>>, <<"-", "1">>, <<"0">>, <<"2">>, <<"5">>}
FileInputs == {NONE, "text/plain", "image/png"}
\* the first and the last index of a list of n entries
EditCoords(n) == {0, n - 1} \cap (0..(n - 1))

Sel == selectedComponent(canvasComponents, selectedComponentId)
CanEdit == Idle /\ Work < MaxWork
EditorOpen == CanEdit /\ Sel # 0

\* onChange={handlePropChange}
PropChange(name, value) ==
  /\ EditorOpen
  /\ name \in PropFields(variant, canvasComponents[Sel].type)
  /\ canvasComponents' =
       handleUpdateComponent(canvasComponents, canvasComponents[Sel].id,
                             handlePropChange(canvasComponents[Sel].props, name, value))
  /\ mounted' = Renders(canvasComponents')
  /\ nEdits' = nEdits + 1
  /\ lastEvent' = [op |-> "propChange", id |-> canvasComponents[Sel].id, name |-> name]
  /\ UNCHANGED <<variant, isExportModalOpen, activeDrag, selectedComponentId, now, created, revoked>>

PropChangeStep ==
  \E name \in {"text", "src", "alt", "label", "placeholder", "options",
               "title", "description", "variant", "chartType"} :
    \E value \in (IF name = "variant" THEN VariantOptions ELSE TextInputs) :
      PropChange(name, value)

\* onChange={handleStyleChange}
StyleChange(name, text) ==
  /\ EditorOpen
  /\ name \in StyleFields(variant, canvasComponents[Sel].props)
  /\ canvasComponents' =
       handleUpdateComponent(canvasComponents, canvasComponents[Sel].id,
         handleStyleChange(canvasComponents[Sel].props, name,
                           IF name = "color" THEN text ELSE StyleValue(variant, name, text)))
  /\ mounted' = Renders(canvasComponents')
  /\ nEdits' = nEdits + 1
  /\ lastEvent' = [op |-> "styleChange", id |-> canvasComponents[Sel].id, name |-> name]
  /\ UNCHANGED <<variant, isExportModalOpen, activeDrag, selectedComponentId, now, created, revoked>>

StyleChangeStep ==
  \E name \in StyleFieldInputs :
    \E text \in (IF name = "color" THEN ColorInputs ELSE StyleInputs) :
      StyleChange(name, text)

\* onChange={handleTableStructureChange} of the rows, cols and hasHeader inputs
TableStructureChange(name, newPropValue) ==
  /\ EditorOpen
  /\ variant = DragJsx
  /\ canvasComponents[Sel].type = "Table"
  /\ LET r == handleTableStructureChange(canvasComponents[Sel].props, name, newPropValue)
     IN  /\ canvasComponents' =
              IF r.threw THEN canvasComponents
              ELSE handleUpdateComponent(canvasComponents, canvasComponents[Sel].id, r.props)
         /\ lastEvent' = [op |-> "tableStructureChange", id |-> canvasComponents[Sel].id,
                          name |-> name, threw |-> r.threw]
  /\ mounted' = Renders(canvasComponents')
  /\ nEdits' = nEdits + 1
  /\ UNCHANGED <<variant, isExportModalOpen, activeDrag, selectedComponentId, now, created, revoked>>

TableStructureChangeStep ==
  \/ \E name \in {"rows", "cols"} : \E text \in DimInputs :
       TableStructureChange(name, parseInt(text))
  \/ \E checked \in BOOLEAN : TableStructureChange("hasHeader", checked)

\* an inline edit of header colIndex of the table at position i, saved
HeaderSave(i, colIndex, newValue) ==
  /\ CanEdit
  /\ variant = DragJsx
  /\ canvasComponents[i].type = "Table"
  /\ canvasComponents[i].props.hasHeader
  /\ colIndex \in EditCoords(Len(canvasComponents[i].props.data.headers))
  /\ canvasComponents' =
       handleUpdateComponent(canvasComponents, canvasComponents[i].id,
         onDataChange(canvasComponents[i].props,
                      handleHeaderSave(canvasComponents[i].props.data, colIndex, newValue)))
  /\ mounted' = Renders(canvasComponents')
  /\ nEdits' = nEdits + 1
  /\ lastEvent' = [op |-> "headerSave", id |-> canvasComponents[i].id, at |-> i,
                   col |-> colIndex]
  /\ UNCHANGED <<variant, isExportModalOpen, activeDrag, selectedComponentId, now, created, revoked>>

\* an inline edit of data cell (rowIndex, colIndex) of the table at position i, saved
CellSave(i, rowIndex, colIndex, newValue) ==
  /\ CanEdit
  /\ variant = DragJsx
  /\ canvasComponents[i].type = "Table"
  /\ rowIndex \in EditCoords(Len(canvasComponents[i].props.data.cells))
  /\ colIndex \in EditCoords(Len(canvasComponents[i].props.data.cells[rowIndex + 1]))
  /\ canvasComponents' =
       handleUpdateComponent(canvasComponents, canvasComponents[i].id,
         onDataChange(canvasComponents[i].props,
                      handleCellSave(canvasComponents[i].props.data, rowIndex, colIndex,
                                     newValue)))
  /\ mounted' = Renders(canvasComponents')
  /\ nEdits' = nEdits + 1
  /\ lastEvent' = [op |-> "cellSave", id |-> canvasComponents[i].id, at |-> i,
                   row |-> rowIndex, col |-> colIndex]
  /\ UNCHANGED <<variant, isExportModalOpen, activeDrag, selectedComponentId, now, created, revoked>>

\* an inline edit of a cell of the table at position i, abandoned with
\* Escape: EditableCell.handleKeyDown sets its own text and isEditing and
\* does not call onSave
EditCancel(i) ==
  /\ Idle
  /\ variant = DragJsx
  /\ canvasComponents[i].type = "Table"
  /\ Len(canvasComponents[i].props.data.cells) > 0
  /\ lastEvent' = [op |-> "editCancel", id |-> canvasComponents[i].id, at |-> i]
  /\ UNCHANGED <<variant, canvasComponents, selectedComponentId, now, mounted,
                 nEdits, created, revoked, isExportModalOpen, activeDrag>>

InlineEditStep ==
  \E i \in 1..Len(canvasComponents) :
    \/ EditCancel(i)
    \/ \E newValue \in TextInputs :
         \/ \E colIndex \in 0..5 : HeaderSave(i, colIndex, newValue)
         \/ \E rowIndex \in 0..5 : \E colIndex \in 0..5 :
              CellSave(i, rowIndex, colIndex, newValue)

\* onChange={handleImageFileSelect} of the panel's file input
ImageFileSelect(file) ==
  /\ EditorOpen
  /\ variant = DragJsx
  /\ canvasComponents[Sel].type = "Image"
  /\ IF IsImageFile(file)
       THEN /\ created' = created + 1
            /\ revoked' = revokeObjectURL(revoked, canvasComponents[Sel].props)
            /\ canvasComponents' =
                 handleUpdateComponent(canvasComponents, canvasComponents[Sel].id,
                   handleImageFileSelect(canvasComponents[Sel].props, BlobURL(created + 1)))
       ELSE UNCHANGED <<created, revoked, canvasComponents>>
  /\ mounted' = Renders(canvasComponents')
  /\ nEdits' = nEdits + 1
  /\ lastEvent' = [op |-> "imageFileSelect", id |-> canvasComponents[Sel].id, file |-> file]
  /\ UNCHANGED <<variant, isExportModalOpen, activeDrag, selectedComponentId, now>>

\* onDrop={handleDrop} of the Image canvas item at position i
ImageDrop(i, file) ==
  /\ CanEdit
  /\ variant = DragJsx
  /\ canvasComponents[i].type = "Image"
  /\ IF IsImageFile(file)
       THEN /\ created' = created + 1
            /\ revoked' = revokeObjectURL(revoked, canvasComponents[i].props)
            /\ canvasComponents' =
                 handleUpdateComponent(canvasComponents, canvasComponents[i].id,
                   handleDrop(canvasComponents[i].props, BlobURL(created + 1)))
       ELSE UNCHANGED <<created, revoked, canvasComponents>>
  /\ mounted' = Renders(canvasComponents')
  /\ nEdits' = nEdits + 1
  /\ lastEvent' = [op |-> "imageDrop", id |-> canvasComponents[i].id, at |-> i, file |-> file]
  /\ UNCHANGED <<variant, isExportModalOpen, activeDrag, selectedComponentId, now>>

ImageStep ==
  \E file \in FileInputs :
    \/ ImageFileSelect(file)
    \/ \E i \in 1..Len(canvasComponents) : ImageDrop(i, file)

Next ==
  \/ Tick
  \/ DragStartStep
  \/ DragCancel
  \/ DragEndStep
  \/ SelectStep
  \/ Deselect
  \/ Clear
  \/ PropChangeStep
  \/ StyleChangeStep
  \/ TableStructureChangeStep
  \/ InlineEditStep
  \/ ImageStep
  \/ OpenExport
  \/ CloseExport

Spec == Init /\ [][Next]_vars

\* ------------------------------------------------------------- claims ----
Tables == {i \in 1..Len(canvasComponents) : canvasComponents[i].type = "Table"}
Min(a, b) == IF a < b THEN a ELSE b
Range(seq) == {seq[i] : i \in 1..Len(seq)}
Count(seq, x) == Cardinality({i \in 1..Len(seq) : seq[i] = x})
\* the targets a drag can end over, none included
DropTargets == {NONE} \cup PaletteTargets(variant) \cup Ids(canvasComponents)
\* seq without its entry at 0-based index i, and seq with x put at 0-based index i
RemoveAt(seq, i) == SubSeq(seq, 1, i) \o SubSeq(seq, i + 2, Len(seq))
InsertAt(seq, i, x) == SubSeq(seq, 1, i) \o <<x>> \o SubSeq(seq, i + 1, Len(seq))

\* C1: every Table instance has data.headers.length = cols, data.cells.length
\* = rows - (hasHeader ? 1 : 0) and every data row of length cols.
C1_TableShape ==
  \A i \in Tables :
    LET p == canvasComponents[i].props
    IN  /\ Len(p.data.headers) = Val(p.cols)
        /\ Len(p.data.cells) = Val(p.rows) - (IF p.hasHeader THEN 1 ELSE 0)
        /\ \A r \in 1..Len(p.data.cells) : Len(p.data.cells[r]) = Val(p.cols)

\* C2: every instance in the store has a props.styles mapping.
C2_StylesPresent ==
  \A i \in 1..Len(canvasComponents) : "styles" \in DOMAIN canvasComponents[i].props

\* C3: an edit of rows or cols of a Table keeps the value of every header and
\* every cell that exists both before and after the edit, at the same
\* coordinates (and an edit that raises an error changes nothing).
C3_ResizePreservesData ==
  \A i \in Tables : \A name \in {"rows", "cols"} : \A text \in DimInputs :
    LET p == canvasComponents[i].props
        r == handleTableStructureChange(p, name, parseInt(text))
        old == p.data
        new == r.props.data
        after == handleUpdateComponent(canvasComponents, canvasComponents[i].id, r.props)
    IN  /\ r.threw => r.props = p
        /\ after[i].props.data = new
        /\ \A c \in 1..Min(Len(old.headers), Len(new.headers)) :
             new.headers[c] = old.headers[c]
        /\ \A row \in 1..Min(Len(old.cells), Len(new.cells)) :
             \A c \in 1..Min(Len(old.cells[row]), Len(new.cells[row])) :
               new.cells[row][c] = old.cells[row][c]

\* a Table whose first cell was edited inline has then been grown by a row:
\* the edited cell is still there, next to a placeholder row
C3_Witness ==
  /\ lastEvent.op = "tableStructureChange"
  /\ ~lastEvent.threw
  /\ lastEvent.name = "rows"
  /\ \E i \in Tables :
       LET d == canvasComponents[i].props.data
       IN  /\ Len(d.cells) = 4
           /\ Len(d.cells[1]) > 0 /\ Len(d.cells[4]) > 0
           /\ d.cells[1][1] \in TextInputs
           /\ d.cells[4][1] = "New Cell"

\* C4: no two instances in the store have the same id.
C4_UniqueIds ==
  \A i, j \in 1..Len(canvasComponents) :
    i # j => canvasComponents[i].id # canvasComponents[j].id

\* C5: a palette drag that ends over a target adds exactly one instance: at
\* the index of the canvas instance it ended over, else at the end; the
\* instances that were there keep their order and contents. (Stated of the
\* two builds the claim is drawn from.)
PaletteInsertPosition(v) ==
  \A active \in PaletteInputs(v) : \A over \in DropTargets \ {NONE} :
    LET c == canvasComponents
        d == DragEnd(v, c, active, over, now)
        i == findIndex(c, over)
    IN  /\ Len(d) = Len(c) + 1
        /\ IF i # -1
             THEN d[i + 1].type = active /\ RemoveAt(d, i) = c
             ELSE d[Len(d)].type = active /\ RemoveAt(d, Len(c)) = c
C5_PaletteInsertPosition ==
  variant \in {DragJsx, AdvancedJsx} => PaletteInsertPosition(variant)

\* C6: dragging instance A onto another instance B removes A from its index
\* and puts it back at the index B had, taken in the sequence without A.
C6_ReorderRemoveInsert ==
  \A active \in Ids(canvasComponents) : \A over \in Ids(canvasComponents) \ {active} :
    LET c == canvasComponents
        from == findIndex(c, active)
        to == findIndex(c, over)
    IN  DragEnd(variant, c, active, over, now) = InsertAt(RemoveAt(c, from), to, c[from + 1])

\* the first of three instances was dragged onto the last and is now last
C6_Witness ==
  /\ lastEvent.op = "dragEnd"
  /\ Len(canvasComponents) = 3
  /\ C4_UniqueIds
  /\ lastEvent.active = canvasComponents[3].id
  /\ lastEvent.over = canvasComponents[2].id
  /\ canvasComponents[3].type # canvasComponents[1].type

\* C7: a drag-end of an existing instance leaves the length of the store and
\* the multiset of its instances unchanged.
C7_ReorderIsPermutation ==
  \A active \in Ids(canvasComponents) : \A over \in DropTargets :
    LET c == canvasComponents
        d == DragEnd(variant, c, active, over, now)
    IN  /\ Len(d) = Len(c)
        /\ \A x \in Range(c) \cup Range(d) : Count(d, x) = Count(c, x)

\* an instance was dragged onto another one of a store of three
C7_Witness ==
  /\ lastEvent.op = "dragEnd"
  /\ Len(canvasComponents) = 3
  /\ lastEvent.active \in Ids(canvasComponents)
  /\ lastEvent.over \in Ids(canvasComponents)
  /\ lastEvent.active # lastEvent.over
  /\ findIndex(canvasComponents, lastEvent.active) = 1

\* C8: a drag that ends over no target changes neither the store nor the
\* selection, whatever was dragged.
C8_NoTargetIsNoOp ==
  [][(lastEvent'.op = "dragEnd" /\ lastEvent'.over = NONE)
       => (canvasComponents' = canvasComponents
           /\ selectedComponentId' = selectedComponentId)]_vars

\* a palette drag ended over no target, with instances on the canvas and one
\* of them selected
C8_Witness ==
  /\ lastEvent.op = "dragEnd"
  /\ lastEvent.over = NONE
  /\ lastEvent.active \in availableComponents(variant)
  /\ Len(canvasComponents) = 2
  /\ selectedComponentId # NONE

\* C9: a drag of a canvas instance that ends over itself, or over something
\* that is no canvas instance, leaves the store unchanged.
C9_UnresolvedTargetIsNoOp ==
  \A active \in Ids(canvasComponents) :
    \A over \in {active} \cup PaletteTargets(variant) :
      DragEnd(variant, canvasComponents, active, over, now) = canvasComponents

\* C10: the props of an instance are an object of its own, never the
\* registry template; a new instance has the template's values; an update
\* for one instance leaves the props of every other instance alone.
C10_IndependentDefaults ==
  /\ \A i \in 1..Len(canvasComponents) : canvasComponents[i].propsRef = "own"
  /\ \A type \in PaletteInputs(variant) :
       newComponent(variant, type, now).props = DEFAULT_PROPS(variant)[type]
  /\ \A i \in 1..Len(canvasComponents) : \A value \in TextInputs :
       LET c == canvasComponents
           d == handleUpdateComponent(c, c[i].id, Spread(c[i].props, "alt", value))
       IN  \A j \in 1..Len(c) : j # i => d[j].props = c[j].props

\* C11: handleUpdateComponent(id, newProps) replaces the props of the
\* instance with that id by newProps as a whole (a key newProps lacks is
\* gone, none comes from the old props), keeps id and type, leaves every
\* other instance alone, and changes nothing when no instance has the id.
UpdateInputs ==
  {[text |-> "New"]}
    \cup {Rest(canvasComponents[i].props, "styles") : i \in 1..Len(canvasComponents)}
C11_UpdateIsWholeReplace ==
  \A id \in Ids(canvasComponents) \cup {"Absent-0"} : \A newProps \in UpdateInputs :
    LET c == canvasComponents
        d == handleUpdateComponent(c, id, newProps)
    IN  /\ Len(d) = Len(c)
        /\ \A i \in 1..Len(c) :
             IF c[i].id = id
               THEN /\ d[i].props = newProps
                    /\ DOMAIN d[i].props = DOMAIN newProps
                    /\ d[i].id = c[i].id /\ d[i].type = c[i].type
               ELSE d[i] = c[i]
        /\ id \notin Ids(c) => d = c

\* a file dropped on an Image instance made an update whose newProps has no
\* styles: the stored props have src and alt and nothing else
C11_Witness ==
  /\ lastEvent.op = "imageDrop"
  /\ IsImageFile(lastEvent.file)
  /\ DOMAIN canvasComponents[lastEvent.at].props = {"src", "alt"}

\* C12: every numeric style field (marginTop, marginBottom, marginLeft,
\* marginRight, fontSize) of every instance holds an integer, never NaN: an
\* edit whose text does not parse as an integer stores 0. (Stated of the two
\* builds the claim is drawn from, and of the instances that have styles.)
NumericStyleFields == {"marginTop", "marginBottom", "marginLeft", "marginRight", "fontSize"}
C12_NumericStylesAreIntegers ==
  variant \in {DragJsx, DragDropJsx} =>
    \A i \in 1..Len(canvasComponents) :
      LET p == canvasComponents[i].props
      IN  "styles" \in DOMAIN p =>
            \A f \in NumericStyleFields \cap DOMAIN p.styles : ~IsNaN(p.styles[f])

\* C13: a file drop on an Image instance or a file pick in the panel that
\* finds a blob: URL in src releases that URL, once, a URL that was not
\* released before, and nothing else; one that finds no blob: URL releases
\* nothing.
ImageEventIndex(e) ==
  IF e.op = "imageDrop" THEN e.at ELSE selectedComponent(canvasComponents, e.id)
C13_ReplaceReleasesOnce ==
  [][(lastEvent'.op \in {"imageDrop", "imageFileSelect"} /\ IsImageFile(lastEvent'.file))
       => LET src == canvasComponents[ImageEventIndex(lastEvent')].props.src
          IN  IF IsBlobURL(src)
                THEN src \notin Range(revoked) /\ revoked' = Append(revoked, src)
                ELSE revoked' = revoked]_vars

\* an Image holding the first object URL got a second file: the first URL
\* is released and the instance holds the second
C13_Witness ==
  /\ lastEvent.op \in {"imageDrop", "imageFileSelect"}
  /\ IsImageFile(lastEvent.file)
  /\ created = 2
  /\ revoked = <<BlobURL(1)>>
  /\ \E i \in 1..Len(canvasComponents) : canvasComponents[i].props.src = BlobURL(2)

\* C14: two replaces of the src of an Image instance, the first by a file
\* pick and the second by a file pick or a file drop. Images is the set of
\* instances the two handlers exist for; TwoReplaces gives the URLs released
\* and the props after the two.
Images ==
  {i \in 1..Len(canvasComponents) :
     variant = DragJsx /\ canvasComponents[i].type = "Image"}
TwoReplaces(props, second) ==
  LET r1 == revokeObjectURL(revoked, props)
      p1 == handleImageFileSelect(props, BlobURL(created + 1))
      r2 == revokeObjectURL(r1, p1)
      p2 == IF second = "drop" THEN handleDrop(p1, BlobURL(created + 2))
                               ELSE handleImageFileSelect(p1, BlobURL(created + 2))
  IN  [released |-> r2, props |-> p2]

\* as stated: the two replaces release exactly two URLs.
C14_TwoReplacesTwoReleases ==
  \A i \in Images : \A second \in {"pick", "drop"} :
    Len(TwoReplaces(canvasComponents[i].props, second).released) = Len(revoked) + 2

\* amended: the two replaces release the URL the first one bound, and before
\* it the blob: URL src held, if it held one: two URLs for an instance that
\* held an object URL, one for an instance that still had the template's
\* src. The URL bound last is the src and is not released.
C14_TwoReplacesReleaseWhatWasBound ==
  \A i \in Images : \A second \in {"pick", "drop"} :
    LET p == canvasComponents[i].props
        t == TwoReplaces(p, second)
    IN  /\ t.released =
             revoked \o (IF IsBlobURL(p.src) THEN <<p.src>> ELSE <<>>)
                     \o <<BlobURL(created + 1)>>
        /\ t.props.src = BlobURL(created + 2)
        /\ t.props.src \notin Range(t.released)

\* one Image on the canvas, taken from the palette, has had two files picked
\* for it: one URL is released
C14_Witness ==
  /\ Len(canvasComponents) = 1
  /\ Images = {1}
  /\ lastEvent.op = "imageFileSelect"
  /\ nEdits = 2
  /\ created = 2
  /\ Len(revoked) = 1
  /\ canvasComponents[1].props.src = BlobURL(2)

\* C15: every object URL created and not released is the src of exactly one
\* instance in the store.
Holders(url) ==
  {i \in 1..Len(canvasComponents) :
     "src" \in DOMAIN canvasComponents[i].props /\ canvasComponents[i].props.src = url}
C15_ExclusiveOwnership ==
  \A n \in 1..created :
    BlobURL(n) \notin Range(revoked) => Cardinality(Holders(BlobURL(n))) = 1

\* C16: reading the exported JSON document back gives, instance by
\* instance, the ids, types, order and props of the store it was written
\* from, every numeric style value included. (Stated of the build the claim
\* is drawn from.)
C16_JSONRoundTrip ==
  (variant = DragJsx /\ isExportModalOpen) =>
    LET read == pageJson(variant, canvasComponents).components
    IN  /\ Len(read) = Len(canvasComponents)
        /\ \A i \in 1..Len(read) :
             /\ read[i].id = canvasComponents[i].id
             /\ read[i].type = canvasComponents[i].type
             /\ read[i].props = canvasComponents[i].props

\* C17: the exported JSON document has the fields name and components and no
\* other; components has the length and the order of the store, and each of
\* its elements has the fields id, type and props and no other, with the id
\* and the type of the instance at that position and props of the same keys,
\* each value that is not a style equal to the instance's.
C17_ExportShape ==
  isExportModalOpen =>
    LET doc == pageJson(variant, canvasComponents)
    IN  /\ DOMAIN doc = {"name", "components"}
        /\ Len(doc.components) = Len(canvasComponents)
        /\ \A i \in 1..Len(canvasComponents) :
             LET e == doc.components[i]
                 p == canvasComponents[i].props
             IN  /\ DOMAIN e = {"id", "type", "props"}
                 /\ e.id = canvasComponents[i].id
                 /\ e.type = canvasComponents[i].type
                 /\ DOMAIN e.props = DOMAIN p
                 /\ \A k \in DOMAIN p \ {"styles"} : e.props[k] = p[k]
                 /\ "styles" \in DOMAIN p => DOMAIN e.props.styles = DOMAIN p.styles

\* the export dialog was opened on a store of two instances of two types
C17_Witness ==
  /\ lastEvent.op = "export"
  /\ isExportModalOpen
  /\ Len(canvasComponents) = 2
  /\ canvasComponents[1].type # canvasComponents[2].type

\* C18: the import list of the generated source text names each type that
\* some instance has exactly once, and no registry type that no instance has,
\* however many instances share a type.
C18_DistinctImports ==
  isExportModalOpen =>
    LET list == imports(variant, canvasComponents)
        used == {canvasComponents[i].type : i \in 1..Len(canvasComponents)}
    IN  \A type \in DOMAIN DEFAULT_PROPS(variant) \cup used :
          Count(list, type) = IF type \in used THEN 1 ELSE 0

\* the export dialog was opened on a store of three instances, two of them
\* of one type
C18_Witness ==
  /\ lastEvent.op = "export"
  /\ isExportModalOpen
  /\ Len(canvasComponents) = 3
  /\ Cardinality({canvasComponents[i].type : i \in 1..3}) = 2

\* C19: a drag changes the store at most once, at its end: no step taken
\* while a drag is in progress other than its end changes the store, its
\* begin and its cancel change nothing of the store, and its end changes the
\* store by one insertion, by one move, or not at all.
OneInsertion(c, d) ==
  Len(d) = Len(c) + 1 /\ \E i \in 0..Len(c) : RemoveAt(d, i) = c
OneMove(c, d) ==
  \E from, to \in 0..(Len(c) - 1) : d = InsertAt(RemoveAt(c, from), to, c[from + 1])
C19_OneMutationPerGesture ==
  [][/\ (activeDrag # NONE /\ lastEvent'.op # "dragEnd")
          => canvasComponents' = canvasComponents
     /\ lastEvent'.op \in {"dragStart", "dragCancel"}
          => canvasComponents' = canvasComponents
     /\ lastEvent'.op = "dragEnd"
          => \/ canvasComponents' = canvasComponents
             \/ OneInsertion(canvasComponents, canvasComponents')
             \/ OneMove(canvasComponents, canvasComponents')]_vars

\* a drag from the palette has ended over an instance of a store of two,
\* which now holds three
C19_Witness ==
  /\ lastEvent.op = "dragEnd"
  /\ lastEvent.active \in availableComponents(variant)
  /\ lastEvent.over \in Ids(canvasComponents)
  /\ activeDrag = NONE
  /\ Len(canvasComponents) = 3

\* C20: every palette type has a template in the registry and every
\* instance in the store has a registry type, the one it was created with
\* (its id is made of it); and a drag end of something that is neither a
\* palette type nor an instance on the canvas leaves the store as it is.
\* (The drag end is stated of the build the claim is drawn from.)
UnknownActives == {"Graph", "Widget"}
HeaderRows(p) == IF p.hasHeader THEN 1 ELSE 0
C21_RowsEdit ==
  \A i \in Tables : \A text \in DimInputs :
    LET p == canvasComponents[i].props
        N == parseInt(text)
        r == handleTableStructureChange(p, "rows", N)
        q == r.props
    IN  ~r.threw =>
          /\ q.rows = N
          /\ Len(q.data.cells) = Val(N) - HeaderRows(p)
          /\ \A row \in 1..Len(q.data.cells) :
               /\ Len(q.data.cells[row]) = Val(p.cols)
               /\ IF row <= Len(p.data.cells)
                    THEN q.data.cells[row] = p.data.cells[row]
                    ELSE \A c \in 1..Val(p.cols) : q.data.cells[row][c] = "New Cell"
          /\ q.data.headers = p.data.headers
          /\ q.cols = p.cols /\ q.hasHeader = p.hasHeader /\ q.styles = p.styles

\* the rows of a Table with a header were edited to 2: one data row is left,
\* the first one
C21_Witness ==
  /\ lastEvent.op = "tableStructureChange"
  /\ lastEvent.name = "rows"
  /\ ~lastEvent.threw
  /\ \E i \in Tables :
       LET p == canvasComponents[i].props
       IN  /\ canvasComponents[i].id = lastEvent.id
           /\ p.hasHeader /\ p.rows = Num(2) /\ p.cols = Num(4)
           /\ p.data.cells = <<generateDefaultTableData(4, 4, TRUE).cells[1]>>

\* C22: an edit of cols of a Table to M that the handler completes leaves
\* cols = M, the headers and every data row at length M, each the first
\* entries of what it was followed by placeholders, and the number of data
\* rows as it was.
Resized(old, new, M, placeholder) ==
  /\ Len(new) = M
  /\ \A c \in 1..M : new[c] = IF c <= Len(old) THEN old[c] ELSE placeholder
C22_ColsEdit ==
  \A i \in Tables : \A text \in DimInputs :
    LET p == canvasComponents[i].props
        M == parseInt(text)
        r == handleTableStructureChange(p, "cols", M)
        q == r.props
    IN  ~r.threw =>
          /\ q.cols = M
          /\ Resized(p.data.headers, q.data.headers, Val(M), "New Header")
          /\ Len(q.data.cells) = Len(p.data.cells)
          /\ \A row \in 1..Min(Len(q.data.cells), Len(p.data.cells)) :
               Resized(p.data.cells[row], q.data.cells[row], Val(M), "New Cell")

\* C23: a toggle of hasHeader of a Table leaves the new hasHeader stored and
\* rows - (hasHeader ? 1 : 0) data rows for that new value, the data rows
\* kept being unchanged.
C23_HeaderToggleRecomputes ==
  \A i \in Tables :
    LET p == canvasComponents[i].props
        r == handleTableStructureChange(p, "hasHeader", ~p.hasHeader)
        q == r.props
    IN  ~r.threw =>
          /\ q.hasHeader = ~p.hasHeader
          /\ Len(q.data.cells) = Val(q.rows) - HeaderRows(q)
          /\ \A row \in 1..Min(Len(q.data.cells), Len(p.data.cells)) :
               q.data.cells[row] = p.data.cells[row]

\* C24: an edit of rows or cols of a Table to zero or to a negative number
\* completes without raising an error and leaves a table of zero or more
\* headers, data rows and cells a row.
ZeroOrNegative == {text \in DimInputs : ~IsNaN(parseInt(text)) /\ Val(parseInt(text)) <= 0}
C24_ResizeClamps ==
  \A i \in Tables : \A name \in {"rows", "cols"} : \A text \in ZeroOrNegative :
    LET r == handleTableStructureChange(canvasComponents[i].props, name, parseInt(text))
    IN  /\ ~r.threw
        /\ Val(r.props.rows) >= 0 /\ Val(r.props.cols) >= 0

\* C25: Clear leaves the store the empty sequence and the selection empty,
\* whatever they were; an export that follows it shows a document with an
\* empty components list.
C25_ClearEmptiesAll ==
  [][/\ lastEvent'.op = "clear"
          => /\ canvasComponents' = <<>>
             /\ selectedComponentId' = NONE
     /\ (lastEvent.op = "clear" /\ lastEvent'.op = "export")
          => /\ isExportModalOpen'
             /\ pageJson(variant, canvasComponents').components = <<>>]_vars

\* an instance was put on the canvas, selected and edited, the canvas was
\* cleared and the export dialog opened
C25_Witness ==
  /\ lastEvent.op = "export"
  /\ isExportModalOpen
  /\ nEdits > 0
  /\ canvasComponents = <<>>
  /\ selectedComponentId = NONE

\* C28: an update made from the properties panel (field edit, style edit,
\* table resize, image pick) changes the props of at most one instance, one
\* with the id the update was made for, and leaves the length of the store,
\* the order of the instances and the id and type of each unchanged; a field
\* edit changes the named key of the props and no other.
PanelOps == {"propChange", "styleChange", "tableStructureChange", "imageFileSelect"}
ChangedProps(c, d) == {i \in 1..Len(c) : d[i].props # c[i].props}
C28_EditorFrame ==
  [][lastEvent'.op \in PanelOps =>
       /\ Len(canvasComponents') = Len(canvasComponents)
       /\ \A i \in 1..Len(canvasComponents) :
            /\ canvasComponents'[i].id = canvasComponents[i].id
            /\ canvasComponents'[i].type = canvasComponents[i].type
       /\ Cardinality(ChangedProps(canvasComponents, canvasComponents')) <= 1
       /\ \A i \in ChangedProps(canvasComponents, canvasComponents') :
            /\ canvasComponents[i].id = lastEvent'.id
            /\ lastEvent'.op = "propChange" =>
                 /\ DOMAIN canvasComponents'[i].props
                      = DOMAIN canvasComponents[i].props \cup {lastEvent'.name}
                 /\ \A k \in DOMAIN canvasComponents[i].props \ {lastEvent'.name} :
                      canvasComponents'[i].props[k] = canvasComponents[i].props[k]]_vars

\* C29: a saved inline edit of header c or of data cell (r, c) of a Table
\* changes that header or that cell of the instance and nothing else of its
\* props: rows, cols, hasHeader, styles, every other header and cell and the
\* shape of the data are as before; an inline edit abandoned with Escape
\* leaves the store unchanged.
SameShape(old, new) ==
  /\ Len(new.headers) = Len(old.headers)
  /\ Len(new.cells) = Len(old.cells)
  /\ \A r \in 1..Len(old.cells) : Len(new.cells[r]) = Len(old.cells[r])
C29_InlineEditFrame ==
  [][/\ lastEvent'.op = "editCancel" => canvasComponents' = canvasComponents
     /\ lastEvent'.op \in {"headerSave", "cellSave"} =>
          LET old == canvasComponents[lastEvent'.at].props
              new == canvasComponents'[lastEvent'.at].props
          IN  /\ DOMAIN new = DOMAIN old
              /\ \A k \in DOMAIN old \ {"data"} : new[k] = old[k]
              /\ SameShape(old.data, new.data)
              /\ \A c \in 1..Len(old.data.headers) :
                   (lastEvent'.op = "headerSave" /\ c = lastEvent'.col + 1)
                     \/ new.data.headers[c] = old.data.headers[c]
              /\ \A r \in 1..Len(old.data.cells) : \A c \in 1..Len(old.data.cells[r]) :
                   (lastEvent'.op = "cellSave" /\ r = lastEvent'.row + 1
                      /\ c = lastEvent'.col + 1)
                     \/ new.data.cells[r][c] = old.data.cells[r][c]]_vars

\* the last cell of the first data row of a Table was edited inline and
\* saved: it holds the text typed, the cell below it holds what it held
C29_Witness ==
  /\ lastEvent.op = "cellSave"
  /\ lastEvent.row = 0 /\ lastEvent.col = 3
  /\ LET d == canvasComponents[lastEvent.at].props.data
     IN  /\ Len(d.cells) = 3
         /\ d.cells[1][4] \in TextInputs
         /\ d.cells[2][4] = "Cell 2-4"

\* C30: the selected id is empty or the id of an instance in the store; an
\* update made from the properties panel is for an id the store holds; after
\* Clear the selection is empty as the store is.
C30_SelectionValid ==
  /\ selectedComponentId \in {NONE} \cup Ids(canvasComponents)
  /\ lastEvent.op \in PanelOps => lastEvent.id \in Ids(canvasComponents)
  /\ lastEvent.op = "clear" => (selectedComponentId = NONE /\ canvasComponents = <<>>)

\* the second of two instances is selected and has been edited in the panel
C30_Witness ==
  /\ lastEvent.op \in PanelOps
  /\ Len(canvasComponents) = 2
  /\ selectedComponentId = lastEvent.id
  /\ findIndex(canvasComponents, selectedComponentId) = 1

====
